---- MODULE Spec2Model ----
(***************************************************************************)
(* State-machine model of notebooks/MNIST.ipynb: the code cells of the     *)
(* notebook are run top to bottom (their execution counts are 1, 2, ...,   *)
(* 29), each cell is one action, and the notebook's global names are the   *)
(* state.  Arrays are functions over 0 .. n-1, as numpy indexes them.      *)
(* float32 values are represented by their IEEE-754 binary32 bit pattern,  *)
(* which for the non-negative values of this notebook is ordered like the  *)
(* values themselves.                                                      *)
(***************************************************************************)
EXTENDS Integers, Sequences, FiniteSets, TLC

\* ---------------------------------------------------------------- bounds
\* Smallest and largest number of samples of the fetched dataset.
MinSamples == 10
MaxSamples == 12
\* Pixel patterns of the datasets: pixel (i, j) is (a*i + j) mod 256, for
\* a in 1 .. MaxRowStep.
MaxRowStep == 1
\* Label patterns: target of sample i is (i + c) mod 10, c in 0 .. MaxLabelShift.
MaxLabelShift == 0
\* Shuffles RandomState(42) may produce: i |-> (s + d*i) mod n for a start s
\* in 0 .. MaxShuffleStart and a direction d in {1, n-1}.
MaxShuffleStart == 1

\* ------------------------------------------------------ program constants
NumFeatures == 784
NumClasses == 10
ImgChannels == 1
ImgHeight == 28
ImgWidth == 28
ScaleDivisor == 255
HiddenDivisor == 8
TestSizeNum == 1
TestSizeDen == 4
NetMaxEpochs == 20
CnnMaxEpochs == 15

\* the value of a name before the cell that binds it has run
Unbound == << >>

\* ----------------------------------------------------------- float32
Pow2(k) == 2 ^ k
F32Hidden == 8388608
F32Bias == 127

RECURSIVE Log2Floor(_)
\* floor(log2(p)) for p >= 1
Log2Floor(p) == IF p < 2 THEN 0 ELSE 1 + Log2Floor(p \div 2)

\* astype('float32') of an integer 0 .. 2^24: exact
F32FromInt(p) ==
    IF p = 0 THEN 0
    ELSE LET k == Log2Floor(p)
         IN  (F32Bias + k) * F32Hidden + (p * Pow2(23 - k) - F32Hidden)

F32Exp(x) == x \div F32Hidden
F32Man(x) == (x % F32Hidden) + F32Hidden

RECURSIVE LongDiv(_, _, _, _)
\* steps more quotient bits of r / d after the quotient bits q
LongDiv(q, r, d, steps) ==
    IF steps = 0 THEN <<q, r>>
    ELSE LET r2 == 2 * r
         IN  IF r2 >= d THEN LongDiv(2 * q + 1, r2 - d, d, steps - 1)
                        ELSE LongDiv(2 * q, r2, d, steps - 1)

\* x / y in float32, round to nearest even; x is 0 or a normal positive
\* number, y a normal positive number, the quotient a normal number
F32Div(x, y) ==
    IF x = 0 THEN 0
    ELSE LET mx == F32Man(x)
             my == F32Man(y)
             lt == mx < my
             e  == F32Exp(x) - F32Exp(y) + F32Bias - (IF lt THEN 1 ELSE 0)
             qr == LongDiv(1, (IF lt THEN 2 * mx ELSE mx) - my, my, 23)
             q  == qr[1]
             r  == qr[2]
             up == IF 2 * r > my \/ (2 * r = my /\ q % 2 = 1) THEN 1 ELSE 0
         IN  e * F32Hidden + (q - F32Hidden) + up

F32Zero == 0
F32One == F32FromInt(1)

\* the float32 values a uint8 can take, and their quotients by 255.0
F32Bytes == {F32FromInt(p) : p \in 0 .. 255}
\* (a variant that divides by 256.0)
DivBy256 == [x \in F32Bytes |-> F32Div(x, F32FromInt(ScaleDivisor + 1))]
DivBy255 == [x \in F32Bytes |-> F32Div(x, F32FromInt(ScaleDivisor))]

\* the float32 of every uint8 value: mnist.data.astype('float32')
Float32Of == [p \in 0 .. 255 |-> F32FromInt(p)]

\* ------------------------------------------------------------- arrays
\* number of rows of an array (shape[0])
Rows(a) == Cardinality(DOMAIN a)
\* number of columns of a two-dimensional array (shape[1])
Cols(a) == Cardinality(DOMAIN a[0])
\* a[idx]: the rows of a at the positions idx, in the order of idx
TakeRows(a, idx) == [k \in DOMAIN idx |-> a[idx[k]]]
\* the values of a two-dimensional array
Values(a) == {a[i][j] : i \in DOMAIN a, j \in DOMAIN a[0]}
\* a.min(), a.max()
ArrayMin(a) == LET vals == Values(a) IN CHOOSE v \in vals : \A w \in vals : v <= w
ArrayMax(a) == LET vals == Values(a) IN CHOOSE v \in vals : \A w \in vals : v >= w
\* np.unique(a): the distinct values of a one-dimensional array
Unique(a) == {a[i] : i \in DOMAIN a}

\* ndarray.reshape, C order: the elements in row-major order ...
Ravel2(a) == [k \in 0 .. Rows(a) * Cols(a) - 1 |-> a[k \div Cols(a)][k % Cols(a)]]
Ravel4(a, d1, d2, d3) ==
    [k \in 0 .. Rows(a) * d1 * d2 * d3 - 1 |->
        a[k \div (d1 * d2 * d3)][(k \div (d2 * d3)) % d1][(k \div d3) % d2][k % d3]]
\* ... laid out again in the new shape; -1 is the dimension that is inferred
Size(flat) == Cardinality(DOMAIN flat)
Shape2(flat, d1) ==
    [i \in 0 .. Size(flat) \div d1 - 1 |-> [j \in 0 .. d1 - 1 |-> flat[i * d1 + j]]]
\* (a variant that lays the image out column by column)
Shape4ColumnMajor(flat, d1, d2, d3) ==
    [i \in 0 .. Size(flat) \div (d1 * d2 * d3) - 1 |->
        [ch \in 0 .. d1 - 1 |-> [r \in 0 .. d2 - 1 |-> [c \in 0 .. d3 - 1 |->
            flat[((i * d1 + ch) * d3 + c) * d2 + r]]]]]
Shape4(flat, d1, d2, d3) ==
    [i \in 0 .. Size(flat) \div (d1 * d2 * d3) - 1 |->
        [ch \in 0 .. d1 - 1 |-> [r \in 0 .. d2 - 1 |-> [c \in 0 .. d3 - 1 |->
            flat[((i * d1 + ch) * d2 + r) * d3 + c]]]]]
\* reshape raises ValueError unless the size is a multiple of the given dimensions
CanReshape(flat, m) == Size(flat) % m = 0

\* ------------------------------------------------------ train_test_split
\* n_test = ceil(test_size * n_samples), n_train = n_samples - n_test
NTest(n) == (n * TestSizeNum + TestSizeDen - 1) \div TestSizeDen
NTrain(n) == n - NTest(n)
\* the shuffled indices: the first n_test are the test set, the next n_train
\* the train set
TestIdx(perm) == [k \in 0 .. NTest(Rows(perm)) - 1 |-> perm[k]]
\* (a variant that takes the train set from the start of the shuffled indices)
TrainIdxFromStart(perm) == [k \in 0 .. NTrain(Rows(perm)) - 1 |-> perm[k]]
TrainIdx(perm) ==
    [k \in 0 .. NTrain(Rows(perm)) - 1 |-> perm[NTest(Rows(perm)) + k]]
\* train_test_split(a, b, test_size=0.25, random_state=42):
\* <<a_train, a_test, b_train, b_test>>
TrainTestSplit(a, b, perm) ==
    << TakeRows(a, TrainIdx(perm)), TakeRows(a, TestIdx(perm)),
       TakeRows(b, TrainIdx(perm)), TakeRows(b, TestIdx(perm)) >>

\* ---------------------------------------------------------- the dataset
\* The datasets fetch_openml may return: n samples of NumFeatures uint8 pixels
\* that take every value 0 .. 255, and targets that take every digit 0 .. 9.
Datasets ==
    [n : MinSamples .. MaxSamples, a : 1 .. MaxRowStep, c : 0 .. MaxLabelShift]
DataOf(d) ==
    [i \in 0 .. d.n - 1 |-> [j \in 0 .. NumFeatures - 1 |-> (d.a * i + j) % 256]]
TargetOf(d) == [i \in 0 .. d.n - 1 |-> (i + d.c) % NumClasses]
\* The permutations RandomState(42) may draw for n samples.
Shuffles(n) ==
    {[k \in 0 .. n - 1 |-> (s + d * k) % n] :
        s \in 0 .. MaxShuffleStart, d \in {1, n - 1}}

\* ------------------------------------------------------------ the state
VARIABLES
    pc,                 \* the cell to run next, "done" or "error"
    openml,             \* the dataset 'mnist_784' as the server holds it
    shuffle42,          \* the permutation RandomState(42) draws for its samples
    mnist,              \* the notebook's globals ...
    X, y,
    X_train, X_test, y_train, y_test,
    mnist_dim, hidden_dim, output_dim,
    ClassifierModule,   \* the default arguments bound by the class statement
    net,
    XCnn, XCnn_train, XCnn_test,
    cnn,
    Out                 \* the displayed value of every cell that displays one

vars ==
    << pc, openml, shuffle42, mnist, X, y, X_train, X_test, y_train, y_test,
       mnist_dim, hidden_dim, output_dim, ClassifierModule, net,
       XCnn, XCnn_train, XCnn_test, cnn, Out >>

\* the code cells of the model, in the order they run
Cells ==
    << "In[3]", "In[4]", "In[5]", "In[6]", "In[7]", "In[8]", "In[9]", "In[10]", "In[13]", "In[14]",
       "In[15]", "In[17]", "In[18]", "In[21]", "In[22]", "In[23]", "In[24]", "In[26]", "In[27]" >>
\* the cells that display a value
OutCells == {4, 7, 10, 14, 22, 24}

\* the cell that runs after cell c
After(c) ==
    LET k == CHOOSE i \in 1 .. Len(Cells) : Cells[i] = c
    IN  IF k = Len(Cells) THEN "done" ELSE Cells[k + 1]

Display(c, v) == Out' = [Out EXCEPT ![c] = v]

\* NeuralNetClassifier(module, max_epochs=...): an estimator that is not fitted
NeuralNetClassifier(module, max_epochs) ==
    [ module |-> module, max_epochs |-> max_epochs, phase |-> "created",
      module_ |-> Unbound, history |-> << >> ]

Init ==
    /\ pc = Cells[1]
    /\ openml \in Datasets
    /\ shuffle42 \in Shuffles(openml.n)
    /\ mnist = [data |-> Unbound, target |-> Unbound]
    /\ X = Unbound /\ y = Unbound
    /\ X_train = Unbound /\ X_test = Unbound
    /\ y_train = Unbound /\ y_test = Unbound
    /\ mnist_dim = 0 /\ hidden_dim = 0 /\ output_dim = 0
    /\ ClassifierModule = [input_dim |-> 0, hidden_dim |-> 0, output_dim |-> 0,
                           dropout |-> Unbound]
    /\ net = NeuralNetClassifier("", 0)
    /\ XCnn = Unbound /\ XCnn_train = Unbound /\ XCnn_test = Unbound
    /\ cnn = NeuralNetClassifier("", 0)
    /\ Out = [c \in OutCells |-> Unbound]

\* In [3]: mnist = fetch_openml('mnist_784', data_home='datasets')
FetchOpenml ==
    /\ pc = "In[3]"
    /\ mnist' = [data |-> DataOf(openml), target |-> TargetOf(openml)]
    /\ pc' = After("In[3]")
    /\ UNCHANGED << openml, shuffle42, X, y, X_train, X_test, y_train, y_test,
                    mnist_dim, hidden_dim, output_dim, ClassifierModule, net,
                    XCnn, XCnn_train, XCnn_test, cnn, Out >>

\* In [4]: mnist.data.shape
ShowDataShape ==
    /\ pc = "In[4]"
    /\ Display(4, << Rows(mnist.data), Cols(mnist.data) >>)
    /\ pc' = After("In[4]")
    /\ UNCHANGED << openml, shuffle42, mnist, X, y, X_train, X_test, y_train,
                    y_test, mnist_dim, hidden_dim, output_dim, ClassifierModule,
                    net, XCnn, XCnn_train, XCnn_test, cnn >>

\* In [5]: X = mnist.data.astype('float32'); y = mnist.target.astype('int64')
\* (the digits 0 .. 9 are the same numbers as int64)
Astype ==
    /\ pc = "In[5]"
    /\ X' = [i \in DOMAIN mnist.data |->
                [j \in DOMAIN mnist.data[i] |-> Float32Of[mnist.data[i][j]]]]
    /\ y' = [i \in DOMAIN mnist.target |-> mnist.target[i]]
    /\ pc' = After("In[5]")
    /\ UNCHANGED << openml, shuffle42, mnist, X_train, X_test, y_train, y_test,
                    mnist_dim, hidden_dim, output_dim, ClassifierModule, net,
                    XCnn, XCnn_train, XCnn_test, cnn, Out >>

\* In [6]: X /= 255.0
Scale ==
    /\ pc = "In[6]"
    /\ X' = [i \in DOMAIN X |-> [j \in DOMAIN X[i] |-> DivBy255[X[i][j]]]]
    /\ pc' = After("In[6]")
    /\ UNCHANGED << openml, shuffle42, mnist, y, X_train, X_test, y_train, y_test,
                    mnist_dim, hidden_dim, output_dim, ClassifierModule, net,
                    XCnn, XCnn_train, XCnn_test, cnn, Out >>

\* In [7]: X.min(), X.max()
ShowMinMax ==
    /\ pc = "In[7]"
    /\ Display(7, << ArrayMin(X), ArrayMax(X) >>)
    /\ pc' = After("In[7]")
    /\ UNCHANGED << openml, shuffle42, mnist, X, y, X_train, X_test, y_train,
                    y_test, mnist_dim, hidden_dim, output_dim, ClassifierModule,
                    net, XCnn, XCnn_train, XCnn_test, cnn >>

\* In [8]: X_train, X_test, y_train, y_test =
\*             train_test_split(X, y, test_size=0.25, random_state=42)
Split ==
    /\ pc = "In[8]"
    /\ LET r == TrainTestSplit(X, y, shuffle42)
       IN  /\ X_train' = r[1]
           /\ X_test' = r[2]
           /\ y_train' = r[3]
           /\ y_test' = r[4]
    /\ pc' = After("In[8]")
    /\ UNCHANGED << openml, shuffle42, mnist, X, y, mnist_dim, hidden_dim,
                    output_dim, ClassifierModule, net, XCnn, XCnn_train,
                    XCnn_test, cnn, Out >>

\* In [9]: assert(X_train.shape[0] + X_test.shape[0] == mnist.data.shape[0])
AssertSplit ==
    /\ pc = "In[9]"
    /\ pc' = IF Rows(X_train) + Rows(X_test) = Rows(mnist.data)
             THEN After("In[9]") ELSE "error"
    /\ UNCHANGED << openml, shuffle42, mnist, X, y, X_train, X_test, y_train,
                    y_test, mnist_dim, hidden_dim, output_dim, ClassifierModule,
                    net, XCnn, XCnn_train, XCnn_test, cnn, Out >>

\* In [10]: X_train.shape, y_train.shape
ShowTrainShape ==
    /\ pc = "In[10]"
    /\ Display(10, << << Rows(X_train), Cols(X_train) >>, << Rows(y_train) >> >>)
    /\ pc' = After("In[10]")
    /\ UNCHANGED << openml, shuffle42, mnist, X, y, X_train, X_test, y_train,
                    y_test, mnist_dim, hidden_dim, output_dim, ClassifierModule,
                    net, XCnn, XCnn_train, XCnn_test, cnn >>

\* int(d / 8): the quotient of a non-negative d, truncated
HiddenDim(d) == d \div HiddenDivisor
\* len(np.unique(target))
OutputDim(target) == Cardinality(Unique(target))

\* In [13]: mnist_dim = X.shape[1]; hidden_dim = int(mnist_dim/8)
\*          output_dim = len(np.unique(mnist.target))
Dims ==
    /\ pc = "In[13]"
    /\ mnist_dim' = Cols(X)
    /\ hidden_dim' = HiddenDim(Cols(X))
    /\ output_dim' = OutputDim(mnist.target)
    /\ pc' = After("In[13]")
    /\ UNCHANGED << openml, shuffle42, mnist, X, y, X_train, X_test, y_train,
                    y_test, ClassifierModule, net, XCnn, XCnn_train, XCnn_test,
                    cnn, Out >>

\* In [14]: mnist_dim, hidden_dim, output_dim
ShowDims ==
    /\ pc = "In[14]"
    /\ Display(14, << mnist_dim, hidden_dim, output_dim >>)
    /\ pc' = After("In[14]")
    /\ UNCHANGED << openml, shuffle42, mnist, X, y, X_train, X_test, y_train,
                    y_test, mnist_dim, hidden_dim, output_dim, ClassifierModule,
                    net, XCnn, XCnn_train, XCnn_test, cnn >>

\* nn.Linear(in_features, out_features)
Linear(i, o) == [in_features |-> i, out_features |-> o]

\* (a variant whose output layer reads the input instead of the hidden layer)
ClassifierModuleInitSkip(input, hidden, output, dropout) ==
    [ dropout |-> dropout,
      hidden  |-> Linear(input, hidden),
      output  |-> Linear(input, output) ]

\* ClassifierModule.__init__(input_dim, hidden_dim, output_dim, dropout)
ClassifierModuleInit(input, hidden, output, dropout) ==
    [ dropout |-> dropout,
      hidden  |-> Linear(input, hidden),
      output  |-> Linear(hidden, output) ]

\* In [15]: class ClassifierModule(nn.Module): the default arguments of
\* __init__ are evaluated when the class statement runs
DefineClassifierModule ==
    /\ pc = "In[15]"
    /\ ClassifierModule' =
           [ input_dim |-> mnist_dim, hidden_dim |-> hidden_dim,
             output_dim |-> output_dim, dropout |-> << 1, 2 >> ]
    /\ pc' = After("In[15]")
    /\ UNCHANGED << openml, shuffle42, mnist, X, y, X_train, X_test, y_train,
                    y_test, mnist_dim, hidden_dim, output_dim, net, XCnn,
                    XCnn_train, XCnn_test, cnn, Out >>

\* In [17]: net = NeuralNetClassifier(ClassifierModule, max_epochs=20, lr=0.1, ...)
CreateNet ==
    /\ pc = "In[17]"
    /\ net' = NeuralNetClassifier("ClassifierModule", NetMaxEpochs)
    /\ pc' = After("In[17]")
    /\ UNCHANGED << openml, shuffle42, mnist, X, y, X_train, X_test, y_train,
                    y_test, mnist_dim, hidden_dim, output_dim, ClassifierModule,
                    XCnn, XCnn_train, XCnn_test, cnn, Out >>

\* fit, first step: the module is instantiated, the history is emptied
FitBegin(est, instance) ==
    [est EXCEPT !.phase = "fitting", !.module_ = instance, !.history = << >>]

\* fit, one epoch: the row of the epoch is appended to the history
HistoryRow(epoch) ==
    [ epoch |-> epoch, train_loss |-> "float", valid_acc |-> "float",
      valid_loss |-> "float", dur |-> "float" ]
FitEpoch(est) ==
    [est EXCEPT !.history = Append(@, HistoryRow(Len(@) + 1))]

\* (a variant that runs one epoch more)
FitMoreInclusive(est) == Len(est.history) <= est.max_epochs

\* fit goes on while fewer than max_epochs epochs have run
FitMore(est) == Len(est.history) < est.max_epochs

\* fit, last step
FitEnd(est) == [est EXCEPT !.phase = "fitted"]

\* In [18]: net.fit(X_train, y_train)
NetFitBegin ==
    /\ pc = "In[18]"
    /\ net.phase = "created"
    /\ net' = FitBegin(net,
                  ClassifierModuleInit(ClassifierModule.input_dim,
                      ClassifierModule.hidden_dim, ClassifierModule.output_dim,
                      ClassifierModule.dropout))
    /\ UNCHANGED << pc, openml, shuffle42, mnist, X, y, X_train, X_test, y_train,
                    y_test, mnist_dim, hidden_dim, output_dim, ClassifierModule,
                    XCnn, XCnn_train, XCnn_test, cnn, Out >>

NetFitEpoch ==
    /\ pc = "In[18]"
    /\ net.phase = "fitting"
    /\ FitMore(net)
    /\ net' = FitEpoch(net)
    /\ UNCHANGED << pc, openml, shuffle42, mnist, X, y, X_train, X_test, y_train,
                    y_test, mnist_dim, hidden_dim, output_dim, ClassifierModule,
                    XCnn, XCnn_train, XCnn_test, cnn, Out >>

NetFitEnd ==
    /\ pc = "In[18]"
    /\ net.phase = "fitting"
    /\ ~FitMore(net)
    /\ net' = FitEnd(net)
    /\ pc' = After("In[18]")
    /\ UNCHANGED << openml, shuffle42, mnist, X, y, X_train, X_test, y_train,
                    y_test, mnist_dim, hidden_dim, output_dim, ClassifierModule,
                    XCnn, XCnn_train, XCnn_test, cnn, Out >>

\* In [21]: XCnn = X.reshape(-1, 1, 28, 28); a size that is no multiple of
\* 1 * 28 * 28 raises ValueError
Reshape ==
    /\ pc = "In[21]"
    /\ IF CanReshape(Ravel2(X), ImgChannels * ImgHeight * ImgWidth)
       THEN /\ XCnn' = Shape4(Ravel2(X), ImgChannels, ImgHeight, ImgWidth)
            /\ pc' = After("In[21]")
       ELSE /\ XCnn' = XCnn
            /\ pc' = "error"
    /\ UNCHANGED << openml, shuffle42, mnist, X, y, X_train, X_test, y_train,
                    y_test, mnist_dim, hidden_dim, output_dim, ClassifierModule,
                    net, XCnn_train, XCnn_test, cnn, Out >>

\* the shape of a four-dimensional array
Shape4Of(a) ==
    << Rows(a), Cardinality(DOMAIN a[0]), Cardinality(DOMAIN a[0][0]),
       Cardinality(DOMAIN a[0][0][0]) >>

\* In [22]: XCnn.shape
ShowCnnShape ==
    /\ pc = "In[22]"
    /\ Display(22, Shape4Of(XCnn))
    /\ pc' = After("In[22]")
    /\ UNCHANGED << openml, shuffle42, mnist, X, y, X_train, X_test, y_train,
                    y_test, mnist_dim, hidden_dim, output_dim, ClassifierModule,
                    net, XCnn, XCnn_train, XCnn_test, cnn >>

\* In [23]: XCnn_train, XCnn_test, y_train, y_test =
\*              train_test_split(XCnn, y, test_size=0.25, random_state=42)
SplitCnn ==
    /\ pc = "In[23]"
    /\ LET r == TrainTestSplit(XCnn, y, shuffle42)
       IN  /\ XCnn_train' = r[1]
           /\ XCnn_test' = r[2]
           /\ y_train' = r[3]
           /\ y_test' = r[4]
    /\ pc' = After("In[23]")
    /\ UNCHANGED << openml, shuffle42, mnist, X, y, X_train, X_test, mnist_dim,
                    hidden_dim, output_dim, ClassifierModule, net, XCnn, cnn, Out >>

\* In [24]: XCnn_train.shape, y_train.shape
ShowCnnTrainShape ==
    /\ pc = "In[24]"
    /\ Display(24, << Shape4Of(XCnn_train), << Rows(y_train) >> >>)
    /\ pc' = After("In[24]")
    /\ UNCHANGED << openml, shuffle42, mnist, X, y, X_train, X_test, y_train,
                    y_test, mnist_dim, hidden_dim, output_dim, ClassifierModule,
                    net, XCnn, XCnn_train, XCnn_test, cnn >>

\* In [25]: Cnn.__init__()
CnnInit ==
    [ conv1 |-> [in_channels |-> 1, out_channels |-> 32, kernel_size |-> 3],
      conv2 |-> [in_channels |-> 32, out_channels |-> 64, kernel_size |-> 3],
      fc1   |-> Linear(1600, 128),
      fc2   |-> Linear(128, 10) ]

\* In [26]: cnn = NeuralNetClassifier(Cnn, max_epochs=15, lr=1, ...)
CreateCnn ==
    /\ pc = "In[26]"
    /\ cnn' = NeuralNetClassifier("Cnn", CnnMaxEpochs)
    /\ pc' = After("In[26]")
    /\ UNCHANGED << openml, shuffle42, mnist, X, y, X_train, X_test, y_train,
                    y_test, mnist_dim, hidden_dim, output_dim, ClassifierModule,
                    net, XCnn, XCnn_train, XCnn_test, Out >>

\* In [27]: cnn.fit(XCnn_train, y_train)
CnnFitBegin ==
    /\ pc = "In[27]"
    /\ cnn.phase = "created"
    /\ cnn' = FitBegin(cnn, CnnInit)
    /\ UNCHANGED << pc, openml, shuffle42, mnist, X, y, X_train, X_test, y_train,
                    y_test, mnist_dim, hidden_dim, output_dim, ClassifierModule,
                    net, XCnn, XCnn_train, XCnn_test, Out >>

CnnFitEpoch ==
    /\ pc = "In[27]"
    /\ cnn.phase = "fitting"
    /\ FitMore(cnn)
    /\ cnn' = FitEpoch(cnn)
    /\ UNCHANGED << pc, openml, shuffle42, mnist, X, y, X_train, X_test, y_train,
                    y_test, mnist_dim, hidden_dim, output_dim, ClassifierModule,
                    net, XCnn, XCnn_train, XCnn_test, Out >>

CnnFitEnd ==
    /\ pc = "In[27]"
    /\ cnn.phase = "fitting"
    /\ ~FitMore(cnn)
    /\ cnn' = FitEnd(cnn)
    /\ pc' = After("In[27]")
    /\ UNCHANGED << openml, shuffle42, mnist, X, y, X_train, X_test, y_train,
                    y_test, mnist_dim, hidden_dim, output_dim, ClassifierModule,
                    net, XCnn_train, XCnn_test, XCnn, Out >>

Next ==
    \/ FetchOpenml \/ ShowDataShape \/ Astype \/ Scale \/ ShowMinMax
    \/ Split \/ AssertSplit \/ ShowTrainShape
    \/ Dims \/ ShowDims \/ DefineClassifierModule \/ CreateNet
    \/ NetFitBegin \/ NetFitEpoch \/ NetFitEnd
    \/ Reshape \/ ShowCnnShape \/ SplitCnn \/ ShowCnnTrainShape
    \/ CreateCnn \/ CnnFitBegin \/ CnnFitEpoch \/ CnnFitEnd

Spec == Init /\ [][Next]_vars

\* A call of fit runs on until it returns: a step of fit that can be taken is
\* taken.
NetFit == NetFitBegin \/ NetFitEpoch \/ NetFitEnd
CnnFit == CnnFitBegin \/ CnnFitEpoch \/ CnnFitEnd
FairSpec == Spec /\ WF_vars(NetFit) /\ WF_vars(CnnFit)

\* ------------------------------------------------------------ properties
CellIndex(c) == CHOOSE i \in 1 .. Len(Cells) : Cells[i] = c
\* cell c has run to its end
Ran(c) == pc = "done" \/ (pc # "error" /\ CellIndex(pc) > CellIndex(c))

\* the number of rows of a that are equal to row
Occurrences(a, row) == Cardinality({k \in DOMAIN a : a[k] = row})

\* C1: after the split of In [8] the train and the test set partition the
\* samples: every row of X is in exactly one of X_train and X_test, the two
\* row counts add up to the row count of mnist.data (the assertion of In [9]
\* never fails), and y_train / y_test have as many rows as X_train / X_test.
SplitPartitions ==
    /\ pc # "error"
    /\ Ran("In[8]") =>
        /\ Rows(X_train) + Rows(X_test) = Rows(mnist.data)
        /\ Rows(y_train) = Rows(X_train)
        /\ Rows(y_test) = Rows(X_test)
    /\ pc = "In[9]" =>
        \A i \in DOMAIN X :
            Occurrences(X_train, X[i]) + Occurrences(X_test, X[i]) = 1

\* a split of 11 samples, where a quarter of the samples is not a whole number
SplitPartitionsWitness ==
    /\ pc = "In[9]"
    /\ Rows(mnist.data) = 11
    /\ Rows(X_train) = 8
    /\ Rows(X_test) = 3

\* C2: every pixel is between 0 and 255, and when In [6] has scaled X (and
\* still when the notebook has run) every element of X is in [0, 1], a pixel 0
\* is 0.0 and a pixel 255 is exactly 1.0; the minimum and maximum displayed by
\* In [7] are 0.0 and 1.0.
ScaledToUnitRange ==
    /\ pc \in {"In[7]", "done"} =>
        \A i \in DOMAIN X : \A j \in DOMAIN X[i] :
            /\ mnist.data[i][j] \in 0 .. 255
            /\ F32Zero <= X[i][j] /\ X[i][j] <= F32One
            /\ mnist.data[i][j] = 0 => X[i][j] = F32Zero
            /\ mnist.data[i][j] = 255 => X[i][j] = F32One
    /\ Ran("In[7]") => Out[7] = << F32Zero, F32One >>

\* the scaled data holds 0.0, 1.0 and a value strictly between them
ScaledToUnitRangeWitness ==
    /\ Ran("In[7]")
    /\ \E i \in DOMAIN X : \E j \in DOMAIN X[i] : X[i][j] = F32One
    /\ \E i \in DOMAIN X : \E j \in DOMAIN X[i] : X[i][j] = F32Zero
    /\ \E i \in DOMAIN X : \E j \in DOMAIN X[i] :
            F32Zero < X[i][j] /\ X[i][j] < F32One

\* C3: the dimensions derived in In [13] are mnist_dim = 784, hidden_dim = 98
\* (= 784 / 8) and output_dim = 10, one per digit 0 .. 9, In [14] displays
\* them, and the two linear layers of the ClassifierModule that net.fit
\* instantiates are 784 -> 98 and 98 -> 10.
DimsFromData ==
    /\ Ran("In[13]") =>
        /\ mnist_dim = 784
        /\ hidden_dim = 98
        /\ hidden_dim * 8 = mnist_dim
        /\ output_dim = 10
        /\ Unique(mnist.target) = 0 .. 9
    /\ Ran("In[14]") => Out[14] = << 784, 98, 10 >>
    /\ Ran("In[15]") =>
        /\ ClassifierModule.input_dim = 784
        /\ ClassifierModule.hidden_dim = 98
        /\ ClassifierModule.output_dim = 10
    /\ (Ran("In[17]") /\ net.phase # "created") =>
        /\ net.module_.hidden = Linear(784, 98)
        /\ net.module_.output = Linear(98, 10)

\* the fitted net holds a ClassifierModule built from the derived dimensions
DimsFromDataWitness ==
    /\ Ran("In[18]")
    /\ net.phase = "fitted"
    /\ net.module_.hidden.in_features = mnist_dim
    /\ net.module_.output.out_features = output_dim

\* C4: when In [21] has reshaped X (and still when the notebook has run) XCnn
\* has the shape (N, 1, 28, 28) for the N rows of X and as many elements as
\* X, XCnn[i, 0, r, c] = X[i, 28*r + c], and XCnn reshaped to (N, 784) is X.
ReshapeKeepsElements ==
    /\ Ran("In[21]") =>
        /\ Shape4Of(XCnn) = << Rows(X), 1, 28, 28 >>
        /\ Rows(XCnn) * 1 * 28 * 28 = Rows(X) * Cols(X)
    /\ pc \in {"In[22]", "done"} =>
        /\ \A i \in DOMAIN X : \A r \in 0 .. 27 : \A c \in 0 .. 27 :
                XCnn[i][0][r][c] = X[i][28 * r + c]
        /\ Shape2(Ravel4(XCnn, 1, 28, 28), 784) = X

\* XCnn is there and its pixels differ along a row and along a column, so
\* that a wrong order of the elements would show
ReshapeKeepsElementsWitness ==
    /\ Ran("In[22]")
    /\ Out[22] = << Rows(X), 1, 28, 28 >>
    /\ XCnn[0][0][0][1] # XCnn[0][0][1][0]
    /\ XCnn[0][0][0][0] # XCnn[1][0][0][0]

\* the rows of a history are numbered 1, 2, ..., each with the three scores
EpochsInOrder(est) ==
    \A k \in 1 .. Len(est.history) :
        /\ est.history[k].epoch = k
        /\ {"train_loss", "valid_acc", "valid_loss"} \subseteq DOMAIN est.history[k]

====
